---------------------------- MODULE Spec2Model ----------------------------
(***************************************************************************)
(* Model of ccmonitor.py: a background monitor for SDCP 3D printers.       *)
(*                                                                         *)
(* The program scans the network for printers (scan_network), then runs    *)
(* one coroutine per printer (monitor_status) under asyncio.gather (main). *)
(* Each coroutine connects a websocket, sends one status request and       *)
(* passes every "Status" response to process_status, which compares it     *)
(* with the previous status of the printer (oldstatus[uid]) and prints a   *)
(* line (display_status) when the status has changed.                      *)
(*                                                                         *)
(* Conventions of the model                                                *)
(*  - A Python dict that may be empty ({}), and an optional value, is a    *)
(*    sequence of length 0 or 1: oldstatus[uid] = <<>> is the {} that      *)
(*    scan_network stores, << s >> a stored status.                        *)
(*  - A status is the JSON object under "Status".  TempOfHotbed is a       *)
(*    float in the program; the model holds it in half degrees (110 is     *)
(*    55.0, 81 is 40.5) and rounds it as Python's round() does.            *)
(*    The field "missing" names the keys that are absent from the JSON     *)
(*    object or hold a value that int()/float() rejects.                   *)
(*  - The console is the variable "last": the last step taken, with the    *)
(*    locals of process_status (old status, prefix) and the line printed.  *)
(*  - A datagram or a websocket message is a record that says how far the  *)
(*    program gets with it: whether it decodes as text, whether it is      *)
(*    nested beyond the recursion limit of json.loads, whether it parses   *)
(*    as JSON, whether the JSON value is a container (object, array or     *)
(*    string, on which the operator "in" is defined), which of the keys    *)
(*    the program looks for are "in" it, whether it is an object (which    *)
(*    can be indexed by a key) and what it holds.                          *)
(*  - Not modelled: the random RequestID and the TimeStamp of a request,   *)
(*    the text rendering of display_status, an interrupt by the user,      *)
(*    discovery replies whose Data lacks Name, MainboardIP or MainboardID  *)
(*    (on these display_status, monitor_status and request_status raise    *)
(*    KeyError),                                                           *)
(*    and the value stored for a Data that is not a JSON object (such a    *)
(*    reply ends the program as a reply with a null Name does).            *)
(***************************************************************************)
EXTENDS Integers, Sequences, FiniteSets, TLC

VARIABLES
    pc,         \* position of the main program
    replies,    \* number of datagrams scan_network has received
    printers,   \* the dict printers: uid -> Data of the discovery reply
    oldstatus,  \* the dict oldstatus: uid -> <<>> or << status >>
    task,       \* position of each monitor_status coroutine
    conn,       \* per uid: number of websocket connections established
    reqs,       \* per uid: messages sent on the current connection
    last        \* the last step taken and what it printed

vars == <<pc, replies, printers, oldstatus, task, conn, reqs, last>>

-----------------------------------------------------------------------------
(* Bounds *)

MaxReplies == 2

MaxConn == 3

-----------------------------------------------------------------------------
(* Values *)

Ids == {"p1", "p2"}

\* The Data of a discovery reply; the Name is << name >>, or <<>> for null.
PrinterData(uid) ==
    [Name |-> <<uid>>, MainboardIP |-> uid, MainboardID |-> uid]

NoPrefix == [bell |-> FALSE, colour |-> "none"]

MkStatus(cs, ps, temp, ct, tt) ==
    [CurrentStatus |-> <<cs>>,
     PrintInfo     |-> [Status |-> ps, CurrentTicks |-> ct, TotalTicks |-> tt],
     TempOfHotbed  |-> temp,
     missing       |-> {}]

\* The same printer answering from another address.
MovedData(uid) == [PrinterData(uid) EXCEPT !.MainboardIP = "moved"]

\* Websocket messages.  "members" holds the keys k for which the test
\* "k in response_json" is true; "Status" is the value of that key of an
\* object.

\* a response with a "Status" object
StatusResponse(s) ==
    [text |-> TRUE, deep |-> FALSE, json |-> TRUE, container |-> TRUE,
     object |-> TRUE, members |-> {"Status"}, Status |-> <<s>>]

\* a JSON object without "Status", as an acknowledgement
NonStatus ==
    [text |-> TRUE, deep |-> FALSE, json |-> TRUE, container |-> TRUE,
     object |-> TRUE, members |-> {}, Status |-> <<>>]

\* a JSON array or string that holds "Status", as ["Status"]
StatusInArray == [NonStatus EXCEPT !.object = FALSE, !.members = {"Status"}]

\* a JSON number, true, false or null
JsonScalar == [NonStatus EXCEPT !.container = FALSE, !.object = FALSE]

\* text that is not JSON
InvalidJson == [JsonScalar EXCEPT !.json = FALSE]

\* text that is nested deeper than the recursion limit, as 100000 times "["
TooDeepResponse == [InvalidJson EXCEPT !.deep = TRUE]

\* a binary frame that is not UTF-8, as b'\x80\x81'
NotTextResponse == [InvalidJson EXCEPT !.text = FALSE]

\* Discovery datagrams.  "hashable" says that the Id can be a key of the
\* dict printers; "printable" says that lines 138-140 do not raise: Data is
\* an object (it has the method get) and its Name, where present, accepts
\* the format " <24" (a string or a number).  The FirmwareVersion is
\* formatted without a format, which accepts every value.
ValidReply(uid, data) ==
    [text |-> TRUE, deep |-> FALSE, json |-> TRUE, container |-> TRUE,
     object |-> TRUE, members |-> {"Id", "Data"},
     Id |-> <<uid>>, hashable |-> TRUE,
     Data |-> <<data>>, printable |-> TRUE]

\* a reply whose Id is an array or an object, as {"Id": ["p1"], "Data": ...}
UnhashableId(uid, data) == [ValidReply(uid, data) EXCEPT !.hashable = FALSE]

\* The Data of a printer whose Name is null.
NullName(uid) == [PrinterData(uid) EXCEPT !.Name = <<>>]

\* a reply whose Data holds a Name that is null (likewise an array or an
\* object)
UnprintableName(uid) ==
    [ValidReply(uid, NullName(uid)) EXCEPT !.printable = FALSE]

NoId(data) ==
    [ValidReply("", data) EXCEPT !.Id = <<>>, !.members = {"Data"}]

NoData(uid) ==
    [ValidReply(uid, PrinterData(uid)) EXCEPT !.Data = <<>>, !.members = {"Id"}]

\* a JSON array or string that holds "Id" and "Data", as ["Id", "Data"]
ArrayReply ==
    [text |-> TRUE, deep |-> FALSE, json |-> TRUE, container |-> TRUE,
     object |-> FALSE, members |-> {"Id", "Data"},
     Id |-> <<>>, hashable |-> FALSE,
     Data |-> <<>>, printable |-> FALSE]

\* a JSON number, true, false or null
ScalarReply == [ArrayReply EXCEPT !.container = FALSE, !.members = {}]

\* text that is not JSON
NotJson == [ScalarReply EXCEPT !.json = FALSE]

\* text that is nested deeper than the recursion limit, as 1024 times "["
TooDeep == [NotJson EXCEPT !.deep = TRUE]

\* bytes that are not UTF-8
NotText == [NotJson EXCEPT !.text = FALSE]

-----------------------------------------------------------------------------
(* process_status: parsing *)

\* Python's round(x) for x = n/d, d > 0: nearest integer, ties to even.
RoundHalfEven(n, d) ==
    LET q == n \div d
        r == n % d
    IN  IF 2 * r < d THEN q
        ELSE IF 2 * r > d THEN q + 1
        ELSE IF q % 2 = 0 THEN q ELSE q + 1

\* round(float(status["TempOfHotbed"])), the status holding half degrees
BedTemp(status) == RoundHalfEven(status.TempOfHotbed, 2)

\* Variant of JobPercent: the quotient is truncated, not rounded.
JobPercent_Truncated(pinfo) ==
    IF pinfo.TotalTicks > 0
    THEN ((pinfo.CurrentTicks * 20) \div pinfo.TotalTicks) * 5
    ELSE 0

\* round(CurrentTicks * 20 / TotalTicks) * 5, or 0 without a job
JobPercent(pinfo) ==
    IF pinfo.TotalTicks > 0
    THEN RoundHalfEven(pinfo.CurrentTicks * 20, pinfo.TotalTicks) * 5
    ELSE 0

\* The keys process_status reads from the current status.
RequiredKeys(status) ==
    {"CurrentStatus", "PrintInfo", "Status", "TempOfHotbed", "TotalTicks"}
    \cup (IF "TotalTicks" \notin status.missing /\ status.PrintInfo.TotalTicks > 0
          THEN {"CurrentTicks"} ELSE {})

\* process_status raises (KeyError, IndexError, TypeError, ValueError)
\* before it reaches its last line.
Raises(status) ==
    \/ status.missing \cap RequiredKeys(status) # {}
    \/ Len(status.CurrentStatus) = 0

\* currentstatus, printstatus, tempofhotbed, jobpercent
Current(status) ==
    [currentstatus |-> status.CurrentStatus[1],
     printstatus   |-> status.PrintInfo.Status,
     tempofhotbed  |-> BedTemp(status),
     jobpercent    |-> JobPercent(status.PrintInfo)]

\* old_printstatus, old_tempofhotbed, old_jobpercent
Old(old) ==
    IF Len(old) > 0
    THEN [old_printstatus  |-> old[1].PrintInfo.Status,
          old_tempofhotbed |-> BedTemp(old[1]),
          old_jobpercent   |-> JobPercent(old[1].PrintInfo)]
    ELSE [old_printstatus  |-> -1,
          old_tempofhotbed |-> -1,
          old_jobpercent   |-> -1]

-----------------------------------------------------------------------------
(* process_status: the rules *)

\* Variant of Prefix: the bell rings on every line of the paused/stopped band.
Prefix_AlwaysBell(c, o) ==
    IF 5 <= c.printstatus /\ c.printstatus <= 8
    THEN [bell |-> TRUE, colour |-> "red"]
    ELSE IF c.printstatus = 9
    THEN IF \/ o.old_printstatus # c.printstatus
            \/ (c.tempofhotbed <= 40 /\ 40 < o.old_tempofhotbed)
         THEN [bell |-> TRUE, colour |-> "green"]
         ELSE NoPrefix
    ELSE IF c.currentstatus = 1
    THEN [bell |-> FALSE, colour |-> "yellow"]
    ELSE NoPrefix

\* Variant of Prefix: green whenever the bed is at or below 40 while complete.
Prefix_GreenWhileCool(c, o) ==
    IF 5 <= c.printstatus /\ c.printstatus <= 8
    THEN [bell   |-> (o.old_printstatus < 5 \/ o.old_printstatus > 8),
          colour |-> "red"]
    ELSE IF c.printstatus = 9
    THEN IF \/ o.old_printstatus # c.printstatus
            \/ c.tempofhotbed <= 40
         THEN [bell |-> TRUE, colour |-> "green"]
         ELSE NoPrefix
    ELSE IF c.currentstatus = 1
    THEN [bell |-> FALSE, colour |-> "yellow"]
    ELSE NoPrefix

\* Variant of Prefix: yellow by the phase printing(13), not by CurrentStatus.
Prefix_PrintingByPhase(c, o) ==
    IF 5 <= c.printstatus /\ c.printstatus <= 8
    THEN [bell   |-> (o.old_printstatus < 5 \/ o.old_printstatus > 8),
          colour |-> "red"]
    ELSE IF c.printstatus = 9
    THEN IF \/ o.old_printstatus # c.printstatus
            \/ (c.tempofhotbed <= 40 /\ 40 < o.old_tempofhotbed)
         THEN [bell |-> TRUE, colour |-> "green"]
         ELSE NoPrefix
    ELSE IF c.printstatus = 13
    THEN [bell |-> FALSE, colour |-> "yellow"]
    ELSE NoPrefix

\* The prefix: bell and colour of the line.
Prefix(c, o) ==
    IF 5 <= c.printstatus /\ c.printstatus <= 8
    THEN [bell   |-> (o.old_printstatus < 5 \/ o.old_printstatus > 8),
          colour |-> "red"]
    ELSE IF c.printstatus = 9
    THEN IF \/ o.old_printstatus # c.printstatus
            \/ (c.tempofhotbed <= 40 /\ 40 < o.old_tempofhotbed)
         THEN [bell |-> TRUE, colour |-> "green"]
         ELSE NoPrefix
    ELSE IF c.currentstatus = 1
    THEN [bell |-> FALSE, colour |-> "yellow"]
    ELSE NoPrefix

\* The first display condition: a job phase, and phase or percent changed.
DisplayJob(c, o) ==
    /\ c.printstatus \notin {0, 9}
    /\ (c.printstatus # o.old_printstatus \/ c.jobpercent # o.old_jobpercent)

\* Variant of DisplayBed: every change of the bed temperature is displayed.
DisplayBed_AnyTemp(c, o) ==
    /\ c.printstatus \in {0, 9}
    /\ \/ c.printstatus # o.old_printstatus
       \/ c.tempofhotbed # o.old_tempofhotbed

\* Variant of DisplayBed: a multiple of 5 is displayed, changed or not.
DisplayBed_NoChangeTest(c, o) ==
    /\ c.printstatus \in {0, 9}
    /\ \/ c.printstatus # o.old_printstatus
       \/ c.tempofhotbed % 5 = 0

\* The second display condition: idle or complete, and phase changed or the
\* bed temperature changed to a multiple of 5.
DisplayBed(c, o) ==
    /\ c.printstatus \in {0, 9}
    /\ \/ c.printstatus # o.old_printstatus
       \/ (c.tempofhotbed # o.old_tempofhotbed /\ c.tempofhotbed % 5 = 0)

\* The line display_status prints.
Line(prefix, printer, c, suffix) ==
    [prefix        |-> prefix,
     Name          |-> printer.Name[1],
     currentstatus |-> c.currentstatus,
     printstatus   |-> c.printstatus,
     suffix        |-> suffix]

\* What process_status prints: <<>> or << line >>.
Display(printer, c, o) ==
    IF DisplayJob(c, o)
    THEN << Line(Prefix(c, o), printer, c,
                 [kind |-> "percent", value |-> c.jobpercent]) >>
    ELSE IF DisplayBed(c, o)
    THEN << Line(Prefix(c, o), printer, c,
                 [kind |-> "bed", value |-> c.tempofhotbed]) >>
    ELSE <<>>

-----------------------------------------------------------------------------
(* request_status *)

request_status(uid, printer) ==
    [Id          |-> uid,
     Cmd         |-> 0,
     MainboardID |-> printer.MainboardID,
     From        |-> 0,
     Topic       |-> <<"sdcp/request/", printer.MainboardID>>]

-----------------------------------------------------------------------------
(* The steps *)

Step(dev, op) ==
    [dev |-> dev, op |-> op, msg |-> <<>>, old |-> <<>>,
     prefix |-> NoPrefix, out |-> <<>>]

Init ==
    /\ pc = "scan"
    /\ replies = 0
    /\ printers = <<>>
    /\ oldstatus = <<>>
    /\ task = <<>>
    /\ conn = <<>>
    /\ reqs = <<>>
    /\ last = Step("main", "start")

\* What the body of the receive loop does with a datagram:
\*  "raise"   an exception leaves scan_network before anything is stored:
\*            UnicodeDecodeError of response.decode() and RecursionError of
\*            json.loads (line 132), TypeError of "in" on a JSON scalar
\*            (line 133), TypeError of indexing an array or a string by "Id"
\*            (line 136), TypeError of an unhashable Id (line 137);
\*  "skip"    the datagram is refused and the loop continues: JSONDecodeError
\*            (line 142), "Data" or "Id" not in the JSON value (line 133);
\*  "partial" printers[uid] is assigned (line 137) and an exception leaves
\*            scan_network before oldstatus[uid] is: AttributeError of
\*            data.get (line 138), TypeError of the format of the name
\*            (line 140);
\*  "store"   the printer is registered.
ScanOutcome(reply) ==
    IF ~reply.text THEN "raise"
    ELSE IF reply.deep THEN "raise"
    ELSE IF ~reply.json THEN "skip"
    ELSE IF ~reply.container THEN "raise"
    ELSE IF ~({"Data", "Id"} \subseteq reply.members) THEN "skip"
    ELSE IF ~reply.object THEN "raise"
    ELSE IF ~reply.hashable THEN "raise"
    ELSE IF ~reply.printable THEN "partial"
    ELSE "store"

\* The entry of uid in a dict, as <<>> or << value >>.
Entry(dict, uid) == IF uid \in DOMAIN dict THEN <<dict[uid]>> ELSE <<>>

\* Variant of ScanReply: the first reply of an Id is kept.
ScanReply_FirstWins(reply) ==
    /\ pc = "scan"
    /\ replies < MaxReplies
    /\ ScanOutcome(reply) = "store"
    /\ replies' = replies + 1
    /\ printers' = printers @@ (reply.Id[1] :> reply.Data[1])
    /\ oldstatus' = (reply.Id[1] :> <<>>) @@ oldstatus
    /\ last' = [Step(reply.Id[1], "scan_reply")
                   EXCEPT !.msg = <<reply>>,
                          !.old = Entry(printers, reply.Id[1])]
    /\ UNCHANGED <<pc, task, conn, reqs>>

\* scan_network: a reply with Id and Data
ScanReply(reply) ==
    /\ pc = "scan"
    /\ replies < MaxReplies
    /\ ScanOutcome(reply) = "store"
    /\ replies' = replies + 1
    /\ printers' = (reply.Id[1] :> reply.Data[1]) @@ printers
    /\ oldstatus' = (reply.Id[1] :> <<>>) @@ oldstatus
    /\ last' = [Step(reply.Id[1], "scan_reply")
                   EXCEPT !.msg = <<reply>>,
                          !.old = Entry(printers, reply.Id[1])]
    /\ UNCHANGED <<pc, task, conn, reqs>>

\* scan_network: a reply that is refused, as invalid JSON or as not SDCP
ScanSkip(reply) ==
    /\ pc = "scan"
    /\ replies < MaxReplies
    /\ ScanOutcome(reply) = "skip"
    /\ replies' = replies + 1
    /\ last' = [Step("main", "scan_skip") EXCEPT !.msg = <<reply>>]
    /\ UNCHANGED <<pc, printers, oldstatus, task, conn, reqs>>

\* scan_network: a reply on which an exception other than JSONDecodeError
\* and socket.timeout is raised; it leaves scan_network and the module.
ScanRaise(reply) ==
    /\ pc = "scan"
    /\ replies < MaxReplies
    /\ ScanOutcome(reply) = "raise"
    /\ replies' = replies + 1
    /\ pc' = "crashed"
    /\ last' = [Step("main", "scan_error") EXCEPT !.msg = <<reply>>]
    /\ UNCHANGED <<printers, oldstatus, task, conn, reqs>>

\* scan_network: a reply with Id and Data on which lines 138-140 raise,
\* after "printers[uid] = data" and before "oldstatus[uid] = {}"; the
\* exception leaves scan_network and the module.
ScanPartial(reply) ==
    /\ pc = "scan"
    /\ replies < MaxReplies
    /\ ScanOutcome(reply) = "partial"
    /\ replies' = replies + 1
    /\ printers' = (reply.Id[1] :> reply.Data[1]) @@ printers
    /\ pc' = "crashed"
    /\ last' = [Step(reply.Id[1], "scan_partial")
                   EXCEPT !.msg = <<reply>>,
                          !.old = Entry(printers, reply.Id[1])]
    /\ UNCHANGED <<oldstatus, task, conn, reqs>>

\* Variant of ScanTimeout: the monitors are started without any printer.
ScanTimeout_NoExit ==
    /\ pc = "scan"
    /\ pc' = "main"
    /\ last' = Step("main", "scan_timeout")
    /\ UNCHANGED <<replies, printers, oldstatus, task, conn, reqs>>

\* scan_network: socket.timeout ends the loop
ScanTimeout ==
    /\ pc = "scan"
    /\ pc' = IF DOMAIN printers = {} THEN "exit" ELSE "main"
    /\ last' = Step("main", "scan_timeout")
    /\ UNCHANGED <<replies, printers, oldstatus, task, conn, reqs>>

\* main: one monitor_status coroutine per printer, gathered
Main ==
    /\ pc = "main"
    /\ pc' = "run"
    /\ task' = [uid \in DOMAIN printers |-> "connecting"]
    /\ conn' = [uid \in DOMAIN printers |-> 0]
    /\ reqs' = [uid \in DOMAIN printers |-> <<>>]
    /\ last' = Step("main", "main")
    /\ UNCHANGED <<replies, printers, oldstatus>>

Running(uid) ==
    /\ pc = "run"
    /\ uid \in DOMAIN task

\* websockets.connect fails to connect: it retries
ConnectFail(uid) ==
    /\ Running(uid)
    /\ task[uid] = "connecting"
    /\ last' = Step(uid, "connect_fail")
    /\ UNCHANGED <<pc, replies, printers, oldstatus, task, conn, reqs>>

\* Variant of Sent: the request is not passed to the connection.
Sent_Nothing(sent, message) == sent

\* The messages passed to websocket.send on a connection, after
\* "websocket.send(message)" is called.
Sent(sent, message) == Append(sent, message)

\* Variant of Connect: a new connection forgets the previous status.
Connect_ResetsStatus(uid) ==
    /\ Running(uid)
    /\ task[uid] = "connecting"
    /\ conn[uid] < MaxConn
    /\ task' = [task EXCEPT ![uid] = "sending"]
    /\ conn' = [conn EXCEPT ![uid] = @ + 1]
    /\ reqs' = [reqs EXCEPT ![uid] = Sent(<<>>, request_status(uid, printers[uid]))]
    /\ oldstatus' = [oldstatus EXCEPT ![uid] = <<>>]
    /\ last' = Step(uid, "connect")
    /\ UNCHANGED <<pc, replies, printers>>

\* websockets.connect yields a new connection; the coroutine builds the
\* request and calls websocket.send, where it is suspended (there is no
\* suspension point between the two).
Connect(uid) ==
    /\ Running(uid)
    /\ task[uid] = "connecting"
    /\ conn[uid] < MaxConn
    /\ task' = [task EXCEPT ![uid] = "sending"]
    /\ conn' = [conn EXCEPT ![uid] = @ + 1]
    /\ reqs' = [reqs EXCEPT ![uid] = Sent(<<>>, request_status(uid, printers[uid]))]
    /\ last' = Step(uid, "connect")
    /\ UNCHANGED <<pc, replies, printers, oldstatus>>

\* "await websocket.send(message)" returns: the response loop is entered
Send(uid) ==
    /\ Running(uid)
    /\ task[uid] = "sending"
    /\ task' = [task EXCEPT ![uid] = "streaming"]
    /\ last' = Step(uid, "send")
    /\ UNCHANGED <<pc, replies, printers, oldstatus, conn, reqs>>

\* Variant of OnConnectionClosed: the coroutine returns.
OnConnectionClosed_Return == "returned"

\* The position after "except websockets.ConnectionClosed: pass": the next
\* iteration of "async for websocket in websockets.connect(url)".
OnConnectionClosed == "connecting"

\* "await websocket.send(message)" raises ConnectionClosed
SendClosed(uid) ==
    /\ Running(uid)
    /\ task[uid] = "sending"
    /\ task' = [task EXCEPT ![uid] = OnConnectionClosed]
    /\ last' = Step(uid, "send_closed")
    /\ UNCHANGED <<pc, replies, printers, oldstatus, conn, reqs>>

\* The response loop ends with the connection (ConnectionClosed is raised,
\* or the iteration over the websocket is exhausted by a normal close).
Closed(uid) ==
    /\ Running(uid)
    /\ task[uid] = "streaming"
    /\ task' = [task EXCEPT ![uid] = OnConnectionClosed]
    /\ last' = Step(uid, "closed")
    /\ UNCHANGED <<pc, replies, printers, oldstatus, conn, reqs>>

\* What the body of the response loop does with a message:
\*  "raise"   an exception that monitor_status does not handle leaves the
\*            coroutine: UnicodeDecodeError and RecursionError of json.loads
\*            (line 100), TypeError of "in" on a JSON scalar (line 102),
\*            TypeError of indexing an array or a string by "Status"
\*            (line 103);
\*  "invalid" json.loads raises JSONDecodeError (handled at line 104);
\*  "ignore"  "Status" is not in the JSON value;
\*  "process" process_status is called with the "Status" of the object.
ResponseOutcome(response) ==
    IF ~response.text THEN "raise"
    ELSE IF response.deep THEN "raise"
    ELSE IF ~response.json THEN "invalid"
    ELSE IF ~response.container THEN "raise"
    ELSE IF "Status" \notin response.members THEN "ignore"
    ELSE IF ~response.object THEN "raise"
    ELSE "process"

\* The position after "except json.JSONDecodeError: print(...)": the handler
\* is outside the response loop, so the coroutine goes on with the next
\* iteration of "async for websocket in websockets.connect(url)", which
\* closes the connection and opens a new one.
OnJSONDecodeError == "connecting"

\* json.loads(response) raises JSONDecodeError
RecvInvalidJson(uid, response) ==
    /\ Running(uid)
    /\ task[uid] = "streaming"
    /\ ResponseOutcome(response) = "invalid"
    /\ task' = [task EXCEPT ![uid] = OnJSONDecodeError]
    /\ last' = [Step(uid, "invalid_json") EXCEPT !.msg = <<response>>]
    /\ UNCHANGED <<pc, replies, printers, oldstatus, conn, reqs>>

\* The position after line 100, 102 or 103 raised an exception that is
\* neither JSONDecodeError nor ConnectionClosed: no handler of monitor_status
\* matches, the exception leaves the coroutine.
OnOtherError == "raised"

\* a response on which json.loads raises UnicodeDecodeError or
\* RecursionError, or the test or the indexing of "Status" raises TypeError
RecvRaise(uid, response) ==
    /\ Running(uid)
    /\ task[uid] = "streaming"
    /\ ResponseOutcome(response) = "raise"
    /\ task' = [task EXCEPT ![uid] = OnOtherError]
    /\ last' = [Step(uid, "response_error") EXCEPT !.msg = <<response>>]
    /\ UNCHANGED <<pc, replies, printers, oldstatus, conn, reqs>>

\* a response without "Status" is ignored
RecvNonStatus(uid, response) ==
    /\ Running(uid)
    /\ task[uid] = "streaming"
    /\ ResponseOutcome(response) = "ignore"
    /\ last' = [Step(uid, "non_status") EXCEPT !.msg = <<response>>]
    /\ UNCHANGED <<pc, replies, printers, oldstatus, task, conn, reqs>>

\* The position after process_status raised: no handler of monitor_status
\* matches, the exception leaves the coroutine.
OnStatusError == "raised"

\* Variant of process_status: the status is stored only when it is displayed.
process_status_StoreIfDisplayed(uid, status) ==
    IF Raises(status)
    THEN /\ task' = [task EXCEPT ![uid] = OnStatusError]
         /\ last' = [Step(uid, "status_error")
                        EXCEPT !.msg = <<StatusResponse(status)>>,
                               !.old = oldstatus[uid]]
         /\ UNCHANGED oldstatus
    ELSE LET c == Current(status)
             o == Old(oldstatus[uid])
         IN  /\ last' = [Step(uid, "status")
                            EXCEPT !.msg = <<StatusResponse(status)>>,
                                   !.old = oldstatus[uid],
                                   !.prefix = Prefix(c, o),
                                   !.out = Display(printers[uid], c, o)]
             /\ oldstatus' = IF Len(Display(printers[uid], c, o)) > 0
                             THEN [oldstatus EXCEPT ![uid] = <<status>>]
                             ELSE oldstatus
             /\ UNCHANGED task

\* Variant of process_status: one previous status for all printers.
process_status_SharedOld(uid, status) ==
    IF Raises(status)
    THEN /\ task' = [task EXCEPT ![uid] = OnStatusError]
         /\ last' = [Step(uid, "status_error")
                        EXCEPT !.msg = <<StatusResponse(status)>>,
                               !.old = oldstatus[uid]]
         /\ UNCHANGED oldstatus
    ELSE LET c == Current(status)
             o == Old(oldstatus[uid])
         IN  /\ last' = [Step(uid, "status")
                            EXCEPT !.msg = <<StatusResponse(status)>>,
                                   !.old = oldstatus[uid],
                                   !.prefix = Prefix(c, o),
                                   !.out = Display(printers[uid], c, o)]
             /\ oldstatus' = [other \in DOMAIN oldstatus |-> <<status>>]
             /\ UNCHANGED task

\* process_status(uid, printer, status)
process_status(uid, status) ==
    IF Raises(status)
    THEN /\ task' = [task EXCEPT ![uid] = OnStatusError]
         /\ last' = [Step(uid, "status_error")
                        EXCEPT !.msg = <<StatusResponse(status)>>,
                               !.old = oldstatus[uid]]
         /\ UNCHANGED oldstatus
    ELSE LET c == Current(status)
             o == Old(oldstatus[uid])
         IN  /\ last' = [Step(uid, "status")
                            EXCEPT !.msg = <<StatusResponse(status)>>,
                                   !.old = oldstatus[uid],
                                   !.prefix = Prefix(c, o),
                                   !.out = Display(printers[uid], c, o)]
             /\ oldstatus' = [oldstatus EXCEPT ![uid] = <<status>>]
             /\ UNCHANGED task

\* a response with "Status"
RecvStatus(uid, status) ==
    /\ Running(uid)
    /\ task[uid] = "streaming"
    /\ ResponseOutcome(StatusResponse(status)) = "process"
    /\ process_status(uid, status)
    /\ UNCHANGED <<pc, replies, printers, conn, reqs>>

\* The exception of a coroutine leaves asyncio.gather and main (which only
\* catches CancelledError); asyncio.run cancels the remaining tasks.
MainAbort ==
    /\ pc = "run"
    /\ \E uid \in DOMAIN task : task[uid] = "raised"
    /\ pc' = "crashed"
    /\ task' = [uid \in DOMAIN task |->
                   IF task[uid] = "raised" THEN "raised" ELSE "cancelled"]
    /\ last' = Step("main", "abort")
    /\ UNCHANGED <<replies, printers, oldstatus, conn, reqs>>

-----------------------------------------------------------------------------
(* The program with small inputs *)

Printing45 == MkStatus(1, 13, 110, 9, 20)

Paused45 == MkStatus(1, 6, 110, 9, 20)

Complete38 == MkStatus(0, 9, 76, 0, 0)

Complete23 == MkStatus(0, 9, 46, 0, 0)

NoTemp == [MkStatus(1, 13, 0, 9, 20) EXCEPT !.missing = {"TempOfHotbed"}]

Statuses == {Printing45, Paused45, Complete38, Complete23, NoTemp}

ScanReplies ==
    UNION {{ValidReply(uid, PrinterData(uid)), ValidReply(uid, MovedData(uid))} :
              uid \in Ids}
    \cup {NotText, TooDeep, NotJson, ScalarReply, ArrayReply,
          NoId(PrinterData("p1")), NoData("p1"),
          UnhashableId("p1", PrinterData("p1")),
          UnprintableName("p1")}

\* The messages of a printer other than responses with a "Status" object.
Responses ==
    {NotTextResponse, TooDeepResponse, InvalidJson, JsonScalar, NonStatus,
     StatusInArray}

Next ==
    \/ \E reply \in ScanReplies : ScanReply(reply)
    \/ \E reply \in ScanReplies : ScanSkip(reply)
    \/ \E reply \in ScanReplies : ScanRaise(reply)
    \/ \E reply \in ScanReplies : ScanPartial(reply)
    \/ ScanTimeout
    \/ Main
    \/ \E uid \in Ids : ConnectFail(uid)
    \/ \E uid \in Ids : Connect(uid)
    \/ \E uid \in Ids : Send(uid)
    \/ \E uid \in Ids : SendClosed(uid)
    \/ \E uid \in Ids : Closed(uid)
    \/ \E uid \in Ids, response \in Responses : RecvInvalidJson(uid, response)
    \/ \E uid \in Ids, response \in Responses : RecvRaise(uid, response)
    \/ \E uid \in Ids, response \in Responses : RecvNonStatus(uid, response)
    \/ \E uid \in Ids, status \in Statuses : RecvStatus(uid, status)
    \/ MainAbort

Spec == Init /\ [][Next]_vars

-----------------------------------------------------------------------------
(* process_status on every pair of a previous and a current status *)

EvalCurrentStatus == {0, 1}

EvalPhases == {-1, 0, 4, 5, 6, 8, 9, 13}

\* half degrees: 23, 24, 38, 40, 40.5, 41, 55
EvalTemps == {46, 48, 76, 80, 81, 82, 110}

\* <<CurrentTicks, TotalTicks>>: no job, 45 %, 50 %, 12.5 %
EvalTicks == {<<0, 0>>, <<9, 20>>, <<10, 20>>, <<1, 8>>}

EvalStatuses ==
    {MkStatus(cs, ps, temp, k[1], k[2]) :
        cs \in EvalCurrentStatus, ps \in EvalPhases,
        temp \in EvalTemps, k \in EvalTicks}

EvalUid == "p1"

\* The monitor of EvalUid has reconnected and sent its request; the previous
\* status of the printer is any status, or none yet.
EvalInit ==
    /\ pc = "run"
    /\ replies = 2
    /\ printers = [uid \in Ids |-> PrinterData(uid)]
    /\ oldstatus \in {[uid \in Ids |-> IF uid = EvalUid THEN old ELSE <<>>] :
                         old \in {<<>>} \cup {<<s>> : s \in EvalStatuses}}
    /\ task = [uid \in Ids |-> IF uid = EvalUid THEN "streaming" ELSE "connecting"]
    /\ conn = [uid \in Ids |-> IF uid = EvalUid THEN 2 ELSE 0]
    /\ reqs = [uid \in Ids |->
                  IF uid = EvalUid
                  THEN <<request_status(uid, PrinterData(uid))>> ELSE <<>>]
    /\ last = Step(EvalUid, "send")

EvalNext ==
    \E status \in EvalStatuses :
        /\ last.op = "send"
        /\ RecvStatus(EvalUid, status)

EvalSpec == EvalInit /\ [][EvalNext]_vars

-----------------------------------------------------------------------------
(* process_status on every progress of a job *)

MaxTicks == 20

\* <<CurrentTicks, TotalTicks>> with 0 <= CurrentTicks <= TotalTicks, and
\* any CurrentTicks without a job (TotalTicks = 0)
Ticks ==
    {k \in (0 .. MaxTicks) \X (0 .. MaxTicks) : k[2] = 0 \/ k[1] <= k[2]}

\* The monitor of EvalUid has sent its request on its first connection; the
\* printer has no previous status.
TicksInit ==
    /\ pc = "run"
    /\ replies = 2
    /\ printers = [uid \in Ids |-> PrinterData(uid)]
    /\ oldstatus = [uid \in Ids |-> <<>>]
    /\ task = [uid \in Ids |-> IF uid = EvalUid THEN "streaming" ELSE "connecting"]
    /\ conn = [uid \in Ids |-> IF uid = EvalUid THEN 1 ELSE 0]
    /\ reqs = [uid \in Ids |->
                  IF uid = EvalUid
                  THEN <<request_status(uid, PrinterData(uid))>> ELSE <<>>]
    /\ last = Step(EvalUid, "send")

\* A first status, then a second one: printing, the bed at 55 degrees.
TicksNext ==
    \E k \in Ticks :
        /\ last.op = "send" \/ Len(last.old) = 0
        /\ RecvStatus(EvalUid, MkStatus(1, 13, 110, k[1], k[2]))

TicksSpec == TicksInit /\ [][TicksNext]_vars

-----------------------------------------------------------------------------
(* Properties *)

\* The steps of the response loop, one per message received.
ResponseOps ==
    {"invalid_json", "response_error", "non_status", "status", "status_error"}

\* The step just taken is process_status returning for some printer.
Processed == last.op = "status"

\* The status process_status was given in the step just taken.
Cur == Current(last.msg[1].Status[1])

\* The previous status of that step (the -1 values when there was none).
Prev == Old(last.old)

HasPrev == Len(last.old) > 0

Displayed == Len(last.out) > 0

Band == 5 .. 8

\* C1 (as claimed): processing the first status of a printer, while its
\* oldstatus entry is still the empty dict of discovery, displays nothing.
C1_FirstStatusSilent ==
    (Processed /\ ~HasPrev) => ~Displayed

\* C2 (as claimed): when the previous and the current status are both
\* complete(9) and the rounded bed temperature goes from above 40 to 40 or
\* below, a line is displayed in green, whatever the current temperature is.
C2_CooledDisplaysGreen ==
    (/\ Processed
     /\ HasPrev
     /\ Prev.old_printstatus = 9
     /\ Cur.printstatus = 9
     /\ Prev.old_tempofhotbed > 40
     /\ Cur.tempofhotbed <= 40)
    => (Displayed /\ last.out[1].prefix.colour = "green")

\* C3 (as claimed): a status that lacks a required field, or holds a
\* non-numeric value there, is dropped and the monitor stays in its response
\* loop on the same connection.
C3_MalformedStatusDropped ==
    last.op = "status_error" =>
        /\ task[last.dev] = "streaming"
        /\ pc = "run"

\* C4 (as claimed): whatever fails in one monitor, no other monitor is
\* cancelled or terminated.
C4_OthersKeepRunning ==
    \A uid \in DOMAIN task : task[uid] \in {"connecting", "sending", "streaming", "raised"}

\* C5 (as claimed): after a response that is not valid JSON the monitor is
\* still in its response loop on the same connection.
C5_InvalidJsonStaysOpen ==
    (last.op \in ResponseOps /\ ~last.msg[1].json)
    => task[last.dev] = "streaming"

\* C6: a connection lost while sending or receiving takes the monitor back
\* to connecting; a connecting monitor only moves on by getting a connection,
\* on which it sends the status request; from there it either enters the
\* response loop or loses the connection again, and statuses are processed
\* in the response loop only.  This holds for every connection, however many
\* were lost before.
C6_Reconnects ==
    [][\A uid \in DOMAIN task :
          /\ (last'.dev = uid /\ last'.op \in {"closed", "send_closed"})
                => task'[uid] = "connecting"
          /\ (last'.dev = uid /\ task[uid] = "connecting")
                => \/ task'[uid] = "connecting" /\ conn'[uid] = conn[uid]
                   \/ /\ task'[uid] = "sending"
                      /\ conn'[uid] = conn[uid] + 1
                      /\ reqs'[uid] = <<request_status(uid, printers[uid])>>
          /\ (last'.dev = uid /\ task[uid] = "sending")
                => task'[uid] \in {"connecting", "streaming"}
          /\ (last'.dev = uid /\ last'.op = "status")
                => task[uid] = "streaming"]_vars

C6_Witness ==
    /\ Processed
    /\ conn[last.dev] = 3
    /\ task[last.dev] = "streaming"

C8_DisplayGates ==
    (Processed /\ HasPrev) =>
        (Displayed <=>
            \/ /\ Cur.printstatus # 0
               /\ Cur.printstatus # 9
               /\ \/ Cur.printstatus # Prev.old_printstatus
                  \/ Cur.jobpercent # Prev.old_jobpercent
            \/ /\ (Cur.printstatus = 0 \/ Cur.printstatus = 9)
               /\ \/ Cur.printstatus # Prev.old_printstatus
                  \/ /\ Cur.tempofhotbed # Prev.old_tempofhotbed
                     /\ \E k \in -100 .. 100 : Cur.tempofhotbed = 5 * k)

\* idle at 23 degrees, then idle at 24 degrees: nothing is displayed
C8_Witness ==
    /\ Processed
    /\ HasPrev
    /\ Prev.old_printstatus = 0
    /\ Cur.printstatus = 0
    /\ Prev.old_tempofhotbed = 23
    /\ Cur.tempofhotbed = 24
    /\ ~Displayed

\* C9: when the current phase is in the paused/stopped band 5..8 the prefix
\* is red, and it carries the bell exactly when the previous phase is outside
\* the band or there is no previous status; printing(13) to paused(6)
\* displays a red line with the bell.
C9_PausedBand ==
    (Processed /\ Cur.printstatus \in Band) =>
        /\ last.prefix.colour = "red"
        /\ last.prefix.bell <=> (~HasPrev \/ last.old[1].PrintInfo.Status \notin Band)
        /\ (HasPrev /\ last.old[1].PrintInfo.Status = 13 /\ Cur.printstatus = 6)
              => /\ Displayed
                 /\ last.out[1].prefix = [bell |-> TRUE, colour |-> "red"]

C9_Witness ==
    /\ Processed
    /\ HasPrev
    /\ last.old[1].PrintInfo.Status = 13
    /\ Cur.printstatus = 6
    /\ Displayed
    /\ last.out[1].prefix.bell

\* C10: a change of the phase to complete(9), from a previous status that is
\* not complete, displays a green line; while the phase stays complete and
\* the bed has not just cooled from above 40 to 40 or below, the prefix is
\* not green.
C10_CompleteGreen ==
    (Processed /\ HasPrev /\ Cur.printstatus = 9) =>
        /\ Prev.old_printstatus # 9
              => /\ Displayed
                 /\ last.out[1].prefix.colour = "green"
        /\ (/\ Prev.old_printstatus = 9
            /\ ~(Prev.old_tempofhotbed > 40 /\ Cur.tempofhotbed <= 40))
              => last.prefix.colour # "green"

C10_Witness ==
    /\ Processed
    /\ HasPrev
    /\ Prev.old_printstatus = 9
    /\ Cur.printstatus = 9
    /\ Prev.old_tempofhotbed = 40
    /\ Cur.tempofhotbed = 38
    /\ last.prefix.colour = "none"

\* C11 (as claimed): when the current phase is neither in the band 5..8 nor
\* complete(9) and CurrentStatus is print(1), every line displayed is yellow
\* without the bell and its detail is the job percent; when none of the
\* three prefix rules matches, the prefix is empty.
C11_PrintingPercent ==
    /\ (/\ Processed
        /\ Displayed
        /\ Cur.printstatus \notin Band
        /\ Cur.printstatus # 9
        /\ Cur.currentstatus = 1)
       => /\ last.out[1].prefix = [bell |-> FALSE, colour |-> "yellow"]
          /\ last.out[1].suffix = [kind |-> "percent", value |-> Cur.jobpercent]
    /\ (/\ Processed
        /\ Cur.printstatus \notin Band
        /\ Cur.printstatus # 9
        /\ Cur.currentstatus # 1)
       => last.prefix = NoPrefix

\* C11 (amended): as claimed, but the detail is the job percent only when
\* the phase is not idle(0); for the phase idle(0) it is the bed temperature.
\* printing(13) at 45 % to printing(13) at 50 % displays a yellow "50 %".
C11_PrintingDetail ==
    /\ (/\ Processed
        /\ Displayed
        /\ Cur.printstatus \notin Band
        /\ Cur.printstatus # 9
        /\ Cur.currentstatus = 1)
       => /\ last.out[1].prefix = [bell |-> FALSE, colour |-> "yellow"]
          /\ Cur.printstatus # 0
                => last.out[1].suffix = [kind |-> "percent", value |-> Cur.jobpercent]
          /\ Cur.printstatus = 0
                => last.out[1].suffix = [kind |-> "bed", value |-> Cur.tempofhotbed]
    /\ (/\ Processed
        /\ HasPrev
        /\ Prev.old_printstatus = 13
        /\ Prev.old_jobpercent = 45
        /\ Cur.printstatus = 13
        /\ Cur.jobpercent = 50
        /\ Cur.currentstatus = 1)
       => /\ Displayed
          /\ last.out[1].suffix = [kind |-> "percent", value |-> 50]
    /\ (/\ Processed
        /\ Cur.printstatus \notin Band
        /\ Cur.printstatus # 9
        /\ Cur.currentstatus # 1)
       => last.prefix = NoPrefix

C11_Witness ==
    /\ Processed
    /\ HasPrev
    /\ Prev.old_printstatus = 4
    /\ Prev.old_jobpercent = 45
    /\ Cur.printstatus = 4
    /\ Cur.jobpercent = 50
    /\ Cur.currentstatus = 1
    /\ Displayed
    /\ last.out[1].prefix.colour = "yellow"

\* C12: process_status compares the status with the stored status of the
\* same printer and then stores exactly the status it was given, displayed or
\* not; no other step of a running program changes the stored status of a
\* printer.  So the previous status of every comparison is the status of the
\* preceding "Status" response of that printer.
C12_SingleSlot ==
    [][\A uid \in DOMAIN task :
          IF last'.dev = uid /\ last'.op = "status"
          THEN /\ last'.old = oldstatus[uid]
               /\ oldstatus'[uid] = last'.msg[1].Status
          ELSE oldstatus'[uid] = oldstatus[uid]]_vars

C12_Witness ==
    /\ Processed
    /\ HasPrev
    /\ ~Displayed
    /\ last.old # last.msg[1].Status
    /\ oldstatus[last.dev] = last.msg[1].Status

\* C13: a status equal to the previous status of the printer displays
\* nothing.
C13_Idempotent ==
    (Processed /\ HasPrev /\ last.old = last.msg[1].Status) => ~Displayed

C13_Witness ==
    /\ Processed
    /\ HasPrev
    /\ last.old = last.msg[1].Status
    /\ Cur.printstatus = 0
    /\ Cur.tempofhotbed = 40
    /\ ~Displayed

\* C14 (as claimed): a response that is valid JSON and carries no Status is
\* ignored: nothing is displayed and the monitor stays in its response loop.
C14_NoStatusIgnored ==
    (/\ last.op \in ResponseOps
     /\ last.msg[1].json
     /\ Len(last.msg[1].Status) = 0)
    => /\ task[last.dev] = "streaming"
       /\ ~Displayed
       /\ pc = "run"

ScanOps == {"scan_reply", "scan_skip", "scan_error", "scan_partial"}

MonitorOps ==
    {"connect_fail", "connect", "send", "send_closed", "closed"} \cup ResponseOps

\* C15: every step of a monitor is taken in the running program, after
\* discovery has ended; until then there is no monitor, no connection and no
\* request; discovery that ends without a printer ends the program, which
\* takes no further step.
C15_DiscoveryFirst ==
    [][/\ last'.op \in MonitorOps => (pc = "run" /\ last'.dev \in DOMAIN printers)
       /\ pc' \in {"scan", "main", "exit"}
             => (task' = <<>> /\ conn' = <<>> /\ reqs' = <<>>)
       /\ (pc = "scan" /\ pc' \notin {"scan", "crashed"})
             => pc' = (IF DOMAIN printers = {} THEN "exit" ELSE "main")
       /\ pc' = "main" => DOMAIN printers' # {}
       /\ pc # "exit"]_vars

C15_Witness ==
    /\ pc = "exit"
    /\ replies > 0
    /\ task = <<>>

\* C16 (as claimed): a discovery reply that is not JSON, or lacks Id or Data,
\* is skipped: discovery goes on.
C16_BadReplySkipped ==
    (/\ last.op \in ScanOps
     /\ \/ ~last.msg[1].json
        \/ Len(last.msg[1].Id) = 0
        \/ Len(last.msg[1].Data) = 0)
    => /\ pc = "scan"
       /\ last.op = "scan_skip"

\* C17: the job percent is 0 when TotalTicks is 0; for 0 <= CurrentTicks <=
\* TotalTicks, TotalTicks > 0, it is 5 * k with k in 0..20 and k the integer
\* nearest to CurrentTicks * 20 / TotalTicks (the even one of two nearest).
C17_JobPercent ==
    (Processed /\ Displayed /\ last.out[1].suffix.kind = "percent") =>
        LET pinfo == last.msg[1].Status[1].PrintInfo
            ct == pinfo.CurrentTicks
            tt == pinfo.TotalTicks
            v == last.out[1].suffix.value
        IN  /\ tt = 0 => v = 0
            /\ (tt > 0 /\ 0 <= ct /\ ct <= tt)
                  => \E k \in 0 .. 20 :
                        LET d == IF 20 * ct >= k * tt
                                 THEN 20 * ct - k * tt ELSE k * tt - 20 * ct
                        IN  /\ v = 5 * k
                            /\ 2 * d <= tt
                            /\ 2 * d = tt => k % 2 = 0

\* 1 of 8 ticks: 2.5 twentieths, rounded to 2, is 10 %
C17_Witness ==
    /\ Processed
    /\ Displayed
    /\ last.msg[1].Status[1].PrintInfo.CurrentTicks = 1
    /\ last.msg[1].Status[1].PrintInfo.TotalTicks = 8
    /\ last.out[1].suffix = [kind |-> "percent", value |-> 10]

\* C18: once the monitors run, printers, oldstatus and the monitors have the
\* same fixed set of keys; processing a status of one printer compares it
\* with that printer's stored status only, and leaves the stored status and
\* the monitor of every other printer as they were.
C18_OwnEntryOnly ==
    [][/\ pc \in {"run", "crashed"}
             => /\ DOMAIN task = DOMAIN printers
                /\ DOMAIN oldstatus = DOMAIN printers
                /\ printers' = printers
                /\ DOMAIN oldstatus' = DOMAIN oldstatus
                /\ DOMAIN task' = DOMAIN task
       /\ \A uid \in DOMAIN task :
             (last'.dev = uid /\ last'.op \in {"status", "status_error"})
             => /\ last'.old = oldstatus[uid]
                /\ last'.op = "status"
                      => last'.out = Display(printers[uid],
                                             Current(last'.msg[1].Status[1]),
                                             Old(oldstatus[uid]))
                /\ \A other \in DOMAIN task \ {uid} :
                      /\ oldstatus'[other] = oldstatus[other]
                      /\ task'[other] = task[other]]_vars

C18_Witness ==
    /\ Processed
    /\ \E other \in DOMAIN oldstatus \ {last.dev} :
          /\ Len(oldstatus[other]) > 0
          /\ oldstatus[other] # oldstatus[last.dev]

\* C19: every valid discovery reply sets the entry of its Id to its Data,
\* whether the Id is new or not, and changes no other entry, and discovery
\* goes on; nothing else changes the printers of a program that goes on;
\* until the monitors run, oldstatus has an entry for exactly the Ids of
\* printers and every entry is empty.
C19_LastReplyWins ==
    [][/\ last'.op = "scan_reply"
             => /\ DOMAIN printers' = DOMAIN printers \cup {last'.msg[1].Id[1]}
                /\ printers'[last'.msg[1].Id[1]] = last'.msg[1].Data[1]
                /\ \A uid \in DOMAIN printers \ {last'.msg[1].Id[1]} :
                      printers'[uid] = printers[uid]
                /\ pc' = "scan"
       /\ (last'.op # "scan_reply" /\ pc' # "crashed") => printers' = printers
       /\ pc' \in {"scan", "main"}
             => /\ DOMAIN oldstatus' = DOMAIN printers'
                /\ \A uid \in DOMAIN oldstatus' : oldstatus'[uid] = <<>>]_vars

C19_Witness ==
    /\ last.op = "scan_reply"
    /\ Len(last.old) > 0
    /\ last.old[1] # printers[last.dev]
    /\ printers[last.dev] = last.msg[1].Data[1]

ConnectionOps ==
    {"connect_fail", "connect", "send", "send_closed", "closed", "invalid_json"}

\* C20: losing a connection, connecting and sending the request leave the
\* stored status of every printer as it was; a status processed on a later
\* connection is compared with the stored status, and displays nothing when
\* it is equal to it.
C20_ReconnectKeepsStatus ==
    [][\A uid \in DOMAIN task :
          /\ (last'.dev = uid /\ last'.op \in ConnectionOps)
                => oldstatus' = oldstatus
          /\ (last'.dev = uid /\ last'.op = "status" /\ conn[uid] >= 2)
                => /\ last'.old = oldstatus[uid]
                   /\ last'.msg[1].Status = oldstatus[uid] => last'.out = <<>>]_vars

C20_Witness ==
    /\ Processed
    /\ conn[last.dev] >= 2
    /\ HasPrev
    /\ last.old = last.msg[1].Status
    /\ ~Displayed

=============================================================================
